---- MODULE Spec2Model ----
(***************************************************************************)
(* vsphere_file: reconciliation of one datastore path (main() of           *)
(* plugins/modules/vsphere_file.py) against a remote datastore.            *)
(*                                                                         *)
(* One invocation of main() is a run of the program counter pc:            *)
(*   "connect" -> "head" -> "dispatch" -> ("wait" ->) "done"               *)
(* The steps are cut at the blocking remote calls.  The remote service,    *)
(* the Python major version (PY2) and the module parameters are inputs.    *)
(***************************************************************************)
EXTENDS Integers, Sequences, FiniteSets, TLC

\* ---------------------------------------------------------------- bounds
\* Number of successive invocations of main() with the same parameters.
MaxRuns == 2
\* Largest size (in bytes) a remote object reports in content-length.
MaxSize == 11

\* ------------------------------------------------------- Python values
\* None and an optional integer n (result['size'], result['status']).
None == <<>>
Some(n) == <<n>>

\* The values of the 'state' parameter (argument_spec choices).
States == {"absent", "directory", "file", "touch"}

\* str(n) for n >= 0: the decimal digits of a content-length value.
Digits == <<"0", "1", "2", "3", "4", "5", "6", "7", "8", "9">>
RECURSIVE FormatInt(_)
FormatInt(n) == IF n < 10 THEN <<Digits[n + 1]>>
                ELSE Append(FormatInt(n \div 10), Digits[(n % 10) + 1])

\* The value of one decimal digit character.
DigitVal(c) == (CHOOSE i \in 1..10 : Digits[i] = c) - 1
IsDigit(c) == \E i \in 1..10 : Digits[i] = c

RECURSIVE DecimalValue(_)
DecimalValue(s) == IF s = <<>> THEN 0
                   ELSE 10 * DecimalValue(SubSeq(s, 1, Len(s) - 1)) + DigitVal(s[Len(s)])

\* A string is a sequence of characters; a character without a TLA+ escape
\* is written as its Python escape ("\\x0b" is the one character 0x0B).
\* The characters int() drops at the ends of a string: 0x09-0x0D and 0x20
\* (isspace), and on Python 3 also 0x85 and 0xA0 (str whitespace within the
\* Latin-1 range of a header value).
Whitespace(py2) ==
    {"\t", "\n", "\\x0b", "\f", "\r", " "}
        \cup (IF py2 THEN {} ELSE {"\\x85", "\\xa0"})

\* Skipping the whitespace at the start, and at the end, of a string.
RECURSIVE LStrip(_, _)
LStrip(ws, s) == IF s # <<>> /\ s[1] \in ws THEN LStrip(ws, Tail(s)) ELSE s
RECURSIVE RStrip(_, _)
RStrip(ws, s) == IF s # <<>> /\ s[Len(s)] \in ws
                 THEN RStrip(ws, SubSeq(s, 1, Len(s) - 1)) ELSE s
Strip(ws, s) == RStrip(ws, LStrip(ws, s))

\* The digit part int() accepts in base 10.  Python 2: decimal digits only.
\* Python 3 (3.6+): decimal digits with single underscores between digits.
ValidDigits(py2, body) ==
    /\ body # <<>>
    /\ \A i \in 1..Len(body) : IsDigit(body[i]) \/ (~py2 /\ body[i] = "_")
    /\ IsDigit(body[1]) /\ IsDigit(body[Len(body)])
    /\ \A i \in 1..(Len(body) - 1) : ~(body[i] = "_" /\ body[i + 1] = "_")

\* int(s) of a string in base 10: whitespace dropped at both ends, an optional
\* sign (on Python 2 whitespace may follow the sign), then the digit part;
\* anything else raises ValueError.
ParseInt(py2, s) ==
    LET ws == Whitespace(py2)
        t == Strip(ws, s)
        signed == t # <<>> /\ t[1] \in {"+", "-"}
        rest == IF signed THEN Tail(t) ELSE t
        body == IF py2 THEN LStrip(ws, rest) ELSE rest
    IN  IF ~ValidDigits(py2, body)
        THEN [ok |-> FALSE, exc |-> "ValueError", val |-> 0]
        ELSE [ok |-> TRUE, exc |-> "",
              val |-> IF signed /\ t[1] = "-"
                      THEN 0 - DecimalValue(SelectSeq(body, IsDigit))
                      ELSE DecimalValue(SelectSeq(body, IsDigit))]

\* int(r.headers.get('content-length', None)): a header is
\* [present |-> BOOLEAN, value |-> sequence of characters].  int(None) raises
\* TypeError.
ParseContentLength(py2, h) ==
    IF ~h.present THEN [ok |-> FALSE, exc |-> "TypeError", val |-> 0]
    ELSE ParseInt(py2, h.value)

\* ------------------------------------------------------------- the code
\* Classification of the HEAD status (if status == 200 / elif 404 / else).
ProbeClass(code) ==
    IF code = 200 THEN "exists" ELSE IF code = 404 THEN "absent" ELSE "fail"

\* The early "nothing to do" exits of the absent / directory / touch branches.
AlreadyDesired_Inverted(st, ex) ==
    \/ st = "absent" /\ ~ex
    \/ st = "directory" /\ ~ex
    \/ st = "touch" /\ ex
AlreadyDesired_NoTouch(st, ex) ==
    \/ st = "absent" /\ ~ex
    \/ st = "directory" /\ ex
AlreadyDesired(st, ex) ==
    \/ st = "absent" /\ ~ex
    \/ st = "directory" /\ ex
    \/ st = "touch" /\ ex

\* The check-mode guards: the mutating call is made only if not check_mode.
SkipsMutation_Never(cm) == FALSE
SkipsMutation(cm) == cm

\* state == 'file': "if not exists" fails.
FileAbsentFails_Never(ex) == FALSE
FileAbsentFails(ex) == ~ex

\* The PUT is accepted only with status 201.
PutOk_Any2xx(code) == code \in {200, 201}
PutOk(code) == code = 201

\* e[0] in the except handlers: indexing an exception works on Python 2 when
\* the exception has arguments; on Python 3 exceptions are not subscriptable
\* (TypeError), on Python 2 without arguments it is an IndexError.
ExcItem0(py2, hasArgs) ==
    IF ~py2 THEN "TypeError" ELSE IF ~hasArgs THEN "IndexError" ELSE "ok"

\* The result reported by the check-mode branch of state == 'touch'.
TouchCheckResult_NoPlaceholder(res) == res
TouchCheckResult(res) == [res EXCEPT !.reason = "Created", !.status = Some(201)]

\* The tail of the touch branch: size 0, state 'file'.
TouchFinal(res) == [res EXCEPT !.size = Some(0), !.state = "file"]

\* result = dict(path=path, size=None, state=state, status=None, url=url);
\* the key 'reason' is not in the dict until it is assigned ("unset").
InitialResult(st) ==
    [path |-> "path", size |-> None, state |-> st, status |-> None,
     url |-> "url", reason |-> "unset"]

\* ------------------------------------------------------- remote service
\* Statuses other than 200/404 the file endpoint may answer a HEAD with.
HeadOtherStatuses == {204, 500}
\* Statuses the file endpoint may answer a PUT with.
PutStatuses == {200, 201, 500}
RemoteStates ==
    {[kind |-> "absent", size |-> 0]}
        \cup {[kind |-> k, size |-> n] : k \in {"file", "directory"}, n \in {0, MaxSize}}

\* The answer to HEAD that tells the truth about the remote object rm.
FaithfulHead(rm) ==
    IF rm.kind = "absent"
    THEN [kind |-> "response", code |-> 404,
          cl |-> [present |-> FALSE, value |-> <<>>], hasArgs |-> TRUE]
    ELSE [kind |-> "response", code |-> 200,
          cl |-> [present |-> TRUE, value |-> FormatInt(rm.size)], hasArgs |-> TRUE]

\* Everything open_url(url, method='HEAD') can produce: a response (returned
\* or raised as HTTPError), a socket.error, or another exception.
HeadOutcomes(rm) ==
    {FaithfulHead(rm)}
      \cup {[kind |-> "response", code |-> c,
             cl |-> [present |-> FALSE, value |-> <<>>], hasArgs |-> TRUE]
              : c \in HeadOtherStatuses}
      \cup (IF rm.kind = "absent" THEN {}
            ELSE {[kind |-> "response", code |-> 200, cl |-> h, hasArgs |-> TRUE]
                    : h \in {[present |-> FALSE, value |-> <<>>],
                             [present |-> TRUE, value |-> <<"x">>],
                             [present |-> TRUE, value |-> <<" ", "+", "7">>],
                             [present |-> TRUE, value |-> <<"1", "_", "0">>],
                             [present |-> TRUE, value |-> <<"7", "\t">>],
                             [present |-> TRUE, value |-> <<"+", " ", "7">>],
                             [present |-> TRUE, value |-> <<>>]}})
      \cup {[kind |-> k, code |-> 0,
             cl |-> [present |-> FALSE, value |-> <<>>], hasArgs |-> a]
              : k \in {"socket.error", "Exception"}, a \in BOOLEAN}

VARIABLES
    state,       \* module.params['state']
    check_mode,  \* module.check_mode
    PY2,         \* six.PY2: the interpreter is Python 2
    remote,      \* the object at the path on the datastore
    run,         \* number of the current invocation
    prev,        \* how the previous invocation ended
    pc,          \* position in main()
    exists,      \* "unbound", "True" or "False"
    status,      \* r.getcode() of the HEAD, None before
    result,      \* the result dict
    task,        \* the file manager task: "none", "running", "success", "error"
    calls,       \* the remote calls issued so far in this invocation
    outcome,     \* "none", "success" (exit_json), "failure" (fail_json), "crash"
    changed,     \* the changed= argument of exit_json
    out,         \* what exit_json / fail_json was called with
    exitCalls,   \* number of exit_json calls in this invocation
    failCalls,   \* number of fail_json calls in this invocation
    head,        \* what the HEAD produced, and whether it told the truth
    put,         \* what the PUT produced
    mutation     \* how the mutating call ended: "none", "ok", "failed"

vars == <<state, check_mode, PY2, remote, run, prev, pc, exists, status, result,
          task, calls, outcome, changed, out, exitCalls, failCalls, head, put,
          mutation>>

NoOut == [kind |-> "none", msg |-> "", reason |-> "", errno |-> "", result |-> InitialResult("file")]
NoHead == [kind |-> "none", code |-> 0, clOk |-> FALSE, faithful |-> FALSE]
NoPut == [kind |-> "none", code |-> 0]
NoPrev == [outcome |-> "none", changed |-> FALSE, mutations |-> 0]

MutatingCalls == {"DeleteFile", "MakeDirectory", "PUT"}
NumMutations(cs) == Cardinality({i \in 1..Len(cs) : cs[i] \in MutatingCalls})

\* The locals of main() at entry (after result = dict(...)).
Fresh ==
    /\ pc' = "connect"
    /\ exists' = "unbound"
    /\ status' = None
    /\ result' = InitialResult(state)
    /\ task' = "none"
    /\ calls' = <<>>
    /\ outcome' = "none"
    /\ changed' = FALSE
    /\ out' = NoOut
    /\ exitCalls' = 0
    /\ failCalls' = 0
    /\ head' = NoHead
    /\ put' = NoPut
    /\ mutation' = "none"

Init ==
    /\ state \in States
    /\ check_mode \in BOOLEAN
    /\ PY2 \in BOOLEAN
    /\ remote \in RemoteStates
    /\ run = 1
    /\ prev = NoPrev
    /\ pc = "connect"
    /\ exists = "unbound"
    /\ status = None
    /\ result = InitialResult(state)
    /\ task = "none"
    /\ calls = <<>>
    /\ outcome = "none"
    /\ changed = FALSE
    /\ out = NoOut
    /\ exitCalls = 0
    /\ failCalls = 0
    /\ head = NoHead
    /\ put = NoPut
    /\ mutation = "none"

\* ------------------------------------------------ exit_json / fail_json
\* module.exit_json(changed=chg, **res): the success result; the process exits.
ExitJson(chg, res) ==
    /\ outcome' = "success"
    /\ changed' = chg
    /\ out' = [kind |-> "exit_json", msg |-> "", reason |-> res.reason,
               errno |-> "", result |-> res]
    /\ exitCalls' = exitCalls + 1
    /\ failCalls' = failCalls
    /\ result' = res
    /\ pc' = "done"

\* module.fail_json(msg=msg, errno=errno, [reason=reason,] **res): the
\* structured failure; the process exits.
FailJson(msg, errno, reason, res) ==
    /\ outcome' = "failure"
    /\ changed' = changed
    /\ out' = [kind |-> "fail_json", msg |-> msg, reason |-> reason,
               errno |-> errno, result |-> res]
    /\ exitCalls' = exitCalls
    /\ failCalls' = failCalls + 1
    /\ result' = res
    /\ pc' = "done"

\* An exception nothing catches: the interpreter prints a traceback and
\* exits; neither exit_json nor fail_json is called.
Uncaught(exc, res) ==
    /\ outcome' = "crash"
    /\ changed' = changed
    /\ out' = [kind |-> "traceback", msg |-> exc, reason |-> "",
               errno |-> "", result |-> res]
    /\ exitCalls' = exitCalls
    /\ failCalls' = failCalls
    /\ result' = res
    /\ pc' = "done"

\* except ... as e: module.fail_json(msg=to_native(e), errno=e[0],
\*                                   reason=to_native(e), **result)
\* The argument e[0] is evaluated before fail_json is called.
HandleWithItem0(hasArgs, res) ==
    IF ExcItem0(PY2, hasArgs) = "ok"
    THEN FailJson("to_native(e)", "e[0]", "to_native(e)", res)
    ELSE Uncaught(ExcItem0(PY2, hasArgs), res)

\* ------------------------------------------------- imported collaborators
\* PyVmomi.__init__ (module_utils.vmware): the login to vCenter either gives a
\* session or fails the module.
PyVmomiInit(ok) == IF ok THEN "connected" ELSE "fail_json"

\* wait_for_task (module_utils.vmware): blocks while the task is running,
\* returns when it succeeded and raises when it ended in error.
wait_for_task(t) ==
    IF t = "success" THEN "returns" ELSE IF t = "error" THEN "raises" ELSE "blocked"

\* --------------------------------------------------------------- main()
\* vmware_datastore = VMwareDatastore(module): PyVmomi.__init__ logs in to
\* vCenter and fails the module when it cannot.
Connect ==
    /\ pc = "connect"
    /\ \E ok \in BOOLEAN :
         IF PyVmomiInit(ok) = "connected"
         THEN /\ pc' = "head"
              /\ UNCHANGED <<outcome, changed, out, exitCalls, failCalls, result>>
         ELSE FailJson("connect", "", "", result)
    /\ UNCHANGED <<state, check_mode, PY2, remote, run, prev, exists, status,
                   task, calls, head, put, mutation>>

\* The HEAD request and the handling of its answer, up to the dispatch on state.
Probe ==
    /\ pc = "head"
    /\ \E h \in HeadOutcomes(remote) :
         /\ calls' = Append(calls, "HEAD")
         /\ head' = [kind |-> h.kind, code |-> h.code,
                     clOk |-> (h.kind = "response" /\ ParseContentLength(PY2, h.cl).ok),
                     faithful |-> (h = FaithfulHead(remote))]
         /\ CASE h.kind = "socket.error" ->
                   /\ HandleWithItem0(h.hasArgs, result)
                   /\ UNCHANGED <<exists, status>>
              [] h.kind = "Exception" ->
                   /\ FailJson("to_native(e)", "dir(e)", "to_native(e)", result)
                   /\ UNCHANGED <<exists, status>>
              [] h.kind = "response" /\ ProbeClass(h.code) = "exists" ->
                   /\ status' = Some(h.code)
                   /\ exists' = "True"
                   /\ IF ParseContentLength(PY2, h.cl).ok
                      THEN /\ result' = [result EXCEPT
                                           !.size = Some(ParseContentLength(PY2, h.cl).val)]
                           /\ pc' = "dispatch"
                           /\ UNCHANGED <<outcome, changed, out, exitCalls, failCalls>>
                      ELSE Uncaught(ParseContentLength(PY2, h.cl).exc, result)
              [] h.kind = "response" /\ ProbeClass(h.code) = "absent" ->
                   /\ status' = Some(h.code)
                   /\ exists' = "False"
                   /\ pc' = "dispatch"
                   /\ UNCHANGED <<outcome, changed, out, exitCalls, failCalls, result>>
              [] h.kind = "response" /\ ProbeClass(h.code) = "fail" ->
                   /\ status' = Some(h.code)
                   /\ exists' = exists
                   /\ FailJson("Failed to query for file", "None", "",
                               [result EXCEPT !.reason = "r.msg",
                                              !.status = Some(h.code)])
    /\ UNCHANGED <<state, check_mode, PY2, remote, run, prev, task, put, mutation>>

\* The branches state == 'absent' (call = DeleteFile) and state == 'directory'
\* (call = MakeDirectory): the early exit, the check-mode exit, or the call
\* of the file manager, which raises at once or returns a task.
ManagedDispatch(st, call) ==
    /\ pc = "dispatch"
    /\ state = st
    /\ IF AlreadyDesired(state, exists = "True")
       THEN /\ ExitJson(FALSE, result)
            /\ UNCHANGED <<calls, task, mutation>>
       ELSE IF SkipsMutation(check_mode)
       THEN /\ ExitJson(TRUE, result)
            /\ UNCHANGED <<calls, task, mutation>>
       ELSE /\ calls' = Append(calls, call)
            /\ \/ /\ task' = "running"
                  /\ pc' = "wait"
                  /\ UNCHANGED <<mutation, outcome, changed, out, exitCalls,
                                 failCalls, result>>
               \/ \E hasArgs \in BOOLEAN :
                    /\ mutation' = "failed"
                    /\ task' = task
                    /\ HandleWithItem0(hasArgs, result)
    /\ UNCHANGED <<state, check_mode, PY2, remote, run, prev, exists, status, head,
                   put>>

DispatchAbsent == ManagedDispatch("absent", "DeleteFile")

DispatchDirectory == ManagedDispatch("directory", "MakeDirectory")

\* The remote task reaches a terminal state; a successful task has changed
\* the datastore.
TaskFinish ==
    /\ pc = "wait"
    /\ task = "running"
    /\ \/ /\ task' = "error"
          /\ remote' = remote
       \/ /\ task' = "success"
          /\ IF calls[Len(calls)] = "DeleteFile"
             THEN remote' = [kind |-> "absent", size |-> 0]
             ELSE \E n \in {0, MaxSize} : remote' = [kind |-> "directory", size |-> n]
    /\ UNCHANGED <<state, check_mode, PY2, run, prev, pc, exists, status, result,
                   calls, outcome, changed, out, exitCalls, failCalls, head, put,
                   mutation>>

\* wait_for_task returns once the task is no longer running, and raises when
\* the task ended in error; then the except handler or the final exit_json.
WaitForTask ==
    /\ pc = "wait"
    /\ wait_for_task(task) # "blocked"
    /\ IF wait_for_task(task) = "returns"
       THEN /\ mutation' = "ok"
            /\ ExitJson(TRUE, result)
       ELSE \E hasArgs \in BOOLEAN :
              /\ mutation' = "failed"
              /\ HandleWithItem0(hasArgs, result)
    /\ UNCHANGED <<state, check_mode, PY2, remote, run, prev, exists, status,
                   task, calls, head, put>>

\* The branch state == 'file'.
DispatchFile ==
    /\ pc = "dispatch"
    /\ state = "file"
    /\ IF FileAbsentFails(exists = "True")
       THEN FailJson("File is absent, cannot continue", "", "",
                     [result EXCEPT !.state = "absent", !.status = status])
       ELSE ExitJson(FALSE, [result EXCEPT !.status = status])
    /\ UNCHANGED <<state, check_mode, PY2, remote, run, prev, exists, status,
                   task, calls, head, put, mutation>>

\* Everything open_url(url, method='PUT') can produce.
PutOutcomes ==
    {[kind |-> "response", code |-> c, hasArgs |-> TRUE] : c \in PutStatuses}
      \cup {[kind |-> k, code |-> 0, hasArgs |-> a]
              : k \in {"socket.error", "Exception"}, a \in BOOLEAN}

\* The branch state == 'touch', the PUT and the handling of its answer included.
DispatchTouch ==
    /\ pc = "dispatch"
    /\ state = "touch"
    /\ IF AlreadyDesired(state, exists = "True")
       THEN /\ ExitJson(FALSE, [result EXCEPT !.state = "file"])
            /\ UNCHANGED <<calls, mutation, remote, put>>
       ELSE IF SkipsMutation(check_mode)
       THEN /\ ExitJson(TRUE, TouchFinal(TouchCheckResult(result)))
            /\ UNCHANGED <<calls, mutation, remote, put>>
       ELSE /\ calls' = Append(calls, "PUT")
            /\ \E p \in PutOutcomes :
                 /\ put' = [kind |-> p.kind, code |-> p.code]
                 /\ IF p.kind = "response"
                    THEN /\ remote' = IF p.code \in {200, 201}
                                      THEN [kind |-> "file", size |-> 0]
                                      ELSE remote
                         /\ IF PutOk(p.code)
                            THEN /\ mutation' = "ok"
                                 /\ ExitJson(TRUE,
                                      TouchFinal([result EXCEPT !.reason = "r.msg",
                                                                !.status = Some(p.code)]))
                            ELSE /\ mutation' = "failed"
                                 /\ FailJson("Failed to touch", "None", "",
                                      [result EXCEPT !.reason = "r.msg",
                                                     !.status = Some(p.code)])
                    ELSE /\ remote' = remote
                         /\ mutation' = "failed"
                         /\ HandleWithItem0(p.hasArgs, result)
    /\ UNCHANGED <<state, check_mode, PY2, run, prev, exists, status, task, head>>

\* The same task is run again with the same parameters.
NextInvocation ==
    /\ pc = "done"
    /\ run < MaxRuns
    /\ run' = run + 1
    /\ prev' = [outcome |-> outcome, changed |-> changed,
                mutations |-> NumMutations(calls)]
    /\ Fresh
    /\ UNCHANGED <<state, check_mode, PY2, remote>>

Next ==
    \/ Connect
    \/ Probe
    \/ DispatchAbsent
    \/ DispatchDirectory
    \/ TaskFinish
    \/ WaitForTask
    \/ DispatchFile
    \/ DispatchTouch
    \/ NextInvocation

Spec == Init /\ [][Next]_vars

TypeOK ==
    /\ state \in States
    /\ pc \in {"connect", "head", "dispatch", "wait", "done"}
    /\ exists \in {"unbound", "True", "False"}
    /\ outcome \in {"none", "success", "failure", "crash"}
    /\ task \in {"none", "running", "success", "error"}
    /\ mutation \in {"none", "ok", "failed"}
    /\ run \in 1..MaxRuns

\* ------------------------------------------------------------ properties
Done == pc = "done"

\* What the HEAD probe showed, in terms of the answer of the service.
ProbeExists == head.kind = "response" /\ head.code = 200 /\ head.clOk
ProbeAbsent == head.kind = "response" /\ head.code = 404

\* The probe shows the path already in the desired condition.
InDesiredCondition ==
    \/ state = "absent" /\ ProbeAbsent
    \/ state = "directory" /\ ProbeExists
    \/ state = "touch" /\ ProbeExists

\* The probe shows a path that a corrective action has to change.
NeedsCorrection ==
    \/ state = "absent" /\ ProbeExists
    \/ state = "directory" /\ ProbeAbsent
    \/ state = "touch" /\ ProbeAbsent

\* C1: when the probe shows the path already in the desired condition, no
\* mutating call is ever issued and the invocation ends in one success result
\* with changed=false; for state=touch the reported state is 'file'.
C1_NoOpWhenDesired ==
    InDesiredCondition =>
        /\ NumMutations(calls) = 0
        /\ Done => /\ outcome = "success"
                   /\ exitCalls = 1 /\ failCalls = 0
                   /\ changed = FALSE
                   /\ out.kind = "exit_json"
                   /\ (state = "touch" => out.result.state = "file")

C1_Witness ==
    /\ Done /\ state = "touch" /\ ProbeExists
    /\ outcome = "success" /\ changed = FALSE /\ out.result.state = "file"

\* C2: outside dry-run, for state absent, directory or touch, an invocation
\* that follows a successful one (the datastore changed only by that
\* invocation's mutating call, the service answering the probe by the
\* datastore's content) issues no mutating call and ends in success with
\* changed=false.
C2_Idempotent ==
    (/\ run >= 2 /\ prev.outcome = "success"
     /\ ~check_mode /\ state \in {"absent", "directory", "touch"}
     /\ head.faithful)
      => /\ NumMutations(calls) = 0
         /\ Done => (outcome = "success" /\ changed = FALSE /\ exitCalls = 1)

C2_Witness ==
    /\ run = 2 /\ prev.outcome = "success" /\ prev.changed /\ prev.mutations = 1
    /\ ~check_mode /\ head.faithful
    /\ Done /\ outcome = "success" /\ changed = FALSE

\* C3: in check mode no delete, mkdir or PUT call is ever issued, whatever the
\* desired state and the probe result.
C3_DryRunNoMutation ==
    check_mode => (NumMutations(calls) = 0 /\ task = "none" /\ put.kind = "none")

C3_Witness ==
    /\ check_mode /\ Done /\ NeedsCorrection
    /\ outcome = "success" /\ changed = TRUE /\ calls = <<"HEAD">>

\* C4: every finished invocation has produced exactly one terminal outcome:
\* one success result whose changed is true exactly when a corrective action
\* was applied (or, in check mode, would have been), or one structured failure.
C4_ExactlyOneOutcome ==
    Done =>
        \/ /\ outcome = "success" /\ exitCalls = 1 /\ failCalls = 0
           /\ changed = (IF check_mode THEN NeedsCorrection ELSE mutation = "ok")
        \/ /\ outcome = "failure" /\ exitCalls = 0 /\ failCalls = 1

\* C5: state=touch, probe absent, outside check mode: exactly one PUT is
\* issued; the invocation ends in the success result {changed=true, size=0,
\* state='file', status=201} if and only if the PUT answered 201, and every
\* other PUT status, 200 included, ends in failure.
C5_TouchNeeds201 ==
    (state = "touch" /\ ProbeAbsent /\ ~check_mode /\ Done) =>
        /\ calls = <<"HEAD", "PUT">>
        /\ (outcome = "success") <=> (put.kind = "response" /\ put.code = 201)
        /\ outcome = "success" =>
               /\ changed = TRUE /\ exitCalls = 1 /\ failCalls = 0
               /\ out.result.size = Some(0)
               /\ out.result.state = "file"
               /\ out.result.status = Some(201)
        /\ (put.kind = "response" /\ put.code # 201) =>
               (outcome = "failure" /\ failCalls = 1 /\ exitCalls = 0)

C5_Witness ==
    /\ state = "touch" /\ ProbeAbsent /\ ~check_mode /\ Done
    /\ put.kind = "response" /\ put.code = 200 /\ outcome = "failure"

\* C6: state=file with the probe answering 404 always ends in the failure
\* "File is absent, cannot continue", never in a success result, and issues no
\* mutating call, in check mode and outside it.
C6_FileAbsentFails ==
    (state = "file" /\ ProbeAbsent) =>
        /\ NumMutations(calls) = 0
        /\ Done => /\ outcome = "failure"
                   /\ failCalls = 1 /\ exitCalls = 0
                   /\ out.msg = "File is absent, cannot continue"
                   /\ out.result.state = "absent"

C6_Witness ==
    /\ state = "file" /\ ProbeAbsent /\ Done /\ outcome = "failure"
    /\ calls = <<"HEAD">>

\* C7: the remote calls of one invocation are ordered: the HEAD first, then at
\* most one mutating call, whose task is no longer running when the terminal
\* result is emitted; a mutating call is issued only after the probe answered
\* 200 or 404; a probe with another status, or a transport failure, ends in
\* failure with no mutating call issued.
C7_OrderedCalls ==
    /\ \/ calls = <<>>
       \/ calls = <<"HEAD">>
       \/ \E m \in MutatingCalls : calls = <<"HEAD", m>>
    /\ head.kind = "none" <=> calls = <<>>
    /\ NumMutations(calls) > 0 => (head.kind = "response" /\ head.code \in {200, 404})
    /\ outcome # "none" => task # "running"
    /\ (calls # <<>> /\ calls[Len(calls)] \in {"DeleteFile", "MakeDirectory"}
        /\ outcome = "success") => task = "success"
    /\ (Done /\ head.kind = "response" /\ head.code \notin {200, 404}) =>
          (outcome = "failure" /\ out.msg = "Failed to query for file"
           /\ out.result.status = Some(head.code))
    /\ (Done /\ head.kind \in {"socket.error", "Exception"}) =>
          (outcome = "failure" /\ failCalls = 1)

\* C8: whenever the delete, mkdir or PUT call fails, the invocation ends in a
\* structured failure that carries the underlying error message and the
\* accumulated result fields, never in a success result.
C8_MutationFailureStructured ==
    (Done /\ mutation = "failed") =>
        /\ outcome = "failure" /\ failCalls = 1 /\ exitCalls = 0
        /\ out.kind = "fail_json"
        /\ (out.msg = "to_native(e)" \/ out.result.reason = "r.msg")
        /\ out.result = result

\* C9 as stated: in check mode every branch that would mutate ends in a success
\* result with changed=true whose status and reason are both set.
C9_PlaceholdersEverywhere ==
    (check_mode /\ Done /\ NeedsCorrection) =>
        /\ outcome = "success" /\ changed = TRUE
        /\ NumMutations(calls) = 0
        /\ out.result.status # None
        /\ out.result.reason # "unset"

\* C9 amended: in check mode every branch that would mutate ends in a success
\* result with changed=true and no mutating call; status=201 and
\* reason='Created' are set by the touch branch only, the absent and directory
\* branches leave status null and reason unset.
C9_PlaceholdersTouchOnly ==
    (check_mode /\ Done /\ NeedsCorrection) =>
        /\ outcome = "success" /\ changed = TRUE /\ exitCalls = 1
        /\ NumMutations(calls) = 0
        /\ state = "touch" => /\ out.result.status = Some(201)
                              /\ out.result.reason = "Created"
                              /\ out.result.size = Some(0)
                              /\ out.result.state = "file"
        /\ state \in {"absent", "directory"} =>
                              /\ out.result.status = None
                              /\ out.result.reason = "unset"

C9_Witness ==
    /\ check_mode /\ Done /\ state = "touch" /\ ProbeAbsent
    /\ outcome = "success" /\ changed = TRUE
    /\ out.result.status = Some(201) /\ out.result.reason = "Created"

\* C10: a HEAD answered 200 sets exists and the size parsed from
\* content-length; when that header is absent or not a number the invocation
\* ends in a structured failure, with no dispatch and no mutating call.
C10_MalformedIsStructuredFailure ==
    (head.kind = "response" /\ head.code = 200) =>
        /\ exists = "True"
        /\ head.clOk => result.size # None
        /\ ~head.clOk => /\ NumMutations(calls) = 0
                         /\ Done
                         /\ outcome = "failure" /\ failCalls = 1

====
